---- MODULE Spec2Model ----
(***************************************************************************)
(* Model of deploy.py: the script that deploys VVET, the Uniswap V2        *)
(* factory and router on VeChain and then creates the VVET/VTHO pair.      *)
(* The script is one sequential program; the node's REST API is the        *)
(* environment, and every answer of the node is a nondeterministic input.  *)
(***************************************************************************)
EXTENDS Integers, Sequences, FiniteSets, TLC

VARIABLES
    pc,                     \* position of the script
    step,                   \* 0 before the first step, then 1..4
    err,                    \* kind of the exception that ended the run
    acc,                    \* account fetched by get_account
    factory,                \* factory artifact read at line 255
    vvet_contract_addr,     \* line 252
    factory_contract_addr,  \* line 257
    router_contract_addr,   \* line 261
    raw,                    \* signed transaction returned by build_tx
    tx_id,                  \* id returned by post_tx
    wait_for,               \* wait_for_receipt: argument
    rounds,                 \* wait_for_receipt: rounds
    iter,                   \* wait_for_receipt: loop iterations started
    receipt,                \* wait_for_receipt / deploy: receipt
    slept,                  \* seconds spent in time.sleep during this wait
    polls,                  \* tx_receipt calls made during this wait
    mineAt,                 \* node: seconds after submission at which the
                            \* receipt of the pending transaction exists
    chainReceipt,           \* node: the receipt, once it exists
    posts,                  \* history: every call of post_tx
    nBestBlock,             \* history: number of best_block calls
    nBuilt,                 \* history: number of transactions built
    observed,               \* history: what each step's receipt showed
    drawn,                  \* history: value _calc_nonce returned to the
                            \* build_tx call that made raw
    fetched,                \* history: block best_block returned to the
                            \* build_tx call that made raw
    prevNonce,              \* history: nonce of the transaction posted last
    lastPoll                \* history: the node's answer to the last
                            \* tx_receipt call of this wait

vars == << pc, step, err, acc, factory, vvet_contract_addr,
           factory_contract_addr, router_contract_addr, raw, tx_id,
           wait_for, rounds, iter, receipt, slept, polls, mineAt,
           chainReceipt, posts, nBestBlock, nBuilt, observed, drawn,
           fetched, prevNonce, lastPoll >>

waitVars == << wait_for, rounds, iter, receipt, slept, polls, lastPoll >>
buildVars == << drawn, fetched, prevNonce >>
addrVars == << vvet_contract_addr, factory_contract_addr,
               router_contract_addr >>
histVars == << posts, nBestBlock, nBuilt, observed >>

(***************************************************************************)
(* Bounds of the model.                                                    *)
(***************************************************************************)
MaxOutputs == 2     \* outputs per receipt
MaxMineAt  == 21    \* latest second at which a receipt appears
MaxWaitFor == 21    \* largest wait_for given to wait_for_receipt alone
MaxAbi     == 1     \* descriptors in the factory artifact's abi
MaxNonce   == 1     \* nonces are drawn from 0..MaxNonce

(***************************************************************************)
(* Constants of the program.                                               *)
(***************************************************************************)
MinVTHO        == 14000
HalfUlpBase    == 909494
interval       == 3
DefaultWaitFor == 20
Expiration     == 32
GasPriceCoef   == 0
BlockRefLen    == 18
CHAIN_TAG      == 164
HttpOk         == 200
HttpError      == 500

None          == "None"
NoneReceipt   == [kind |-> "None"]
NoneAbi       == [kind |-> "None"]
NoneAccount   == [kind |-> "None"]
NoneArtifact  == [kind |-> "None"]
NoneTx        == [kind |-> "None"]
NoneBlock     == [kind |-> "None"]
NoNonce       == -1
Never         == -1

VTHO_CONTRACT   == "0x0000000000000000000000000000456e65726779"
DeployerAddress == "0xdeployer"

HttpStatuses == {HttpOk, HttpError}
Min(S) == CHOOSE x \in S : \A y \in S : x <= y

(***************************************************************************)
(* What the node can answer.                                               *)
(***************************************************************************)
Addresses  == {"0xa1", "0xa2"}
OutputRecs == [contractAddress : Addresses \cup {None}]
OutputSeqs == UNION { [1..n -> OutputRecs] : n \in 0..MaxOutputs }
Receipts   == [kind : {"receipt"}, reverted : BOOLEAN, outputs : OutputSeqs]
MineTimes  == (0..MaxMineAt) \cup {Never}
Nonces     == 0..MaxNonce

\* energy in base units is units * 10^18 + rem
Energies == { [units |-> 13999, rem |-> 909495],
              [units |-> 14000, rem |-> 0],
              [units |-> 14000, rem |-> 909494],
              [units |-> 14000, rem |-> 909495],
              [units |-> 14001, rem |-> 0] }
Accounts == [energy : Energies, hasCode : BOOLEAN]

\* block ids: "0x" and 64 hex digits; the second differs from the first
\* inside the first 18 characters, the third only after them
BlockId(pos) == <<"0", "x">> \o [i \in 1..64 |-> IF i = pos THEN "a" ELSE "0"]
Blocks == { [id |-> BlockId(0)], [id |-> BlockId(9)], [id |-> BlockId(30)] }

(***************************************************************************)
(* Contract artifacts (read_json_file of TARGETS).                         *)
(***************************************************************************)
AbiEntries == { [type |-> "function", name |-> "createPair",
                 inputs |-> <<"address", "address">>],
                [type |-> "function", name |-> "getPair",
                 inputs |-> <<"address", "address">>] }
AbiLists == UNION { [1..n -> AbiEntries] : n \in 0..MaxAbi }

vvet == [kind |-> "artifact", contractName |-> "VVET9",
         bytecode |-> <<"vvet_code">>, abi |-> <<>>]
router == [kind |-> "artifact", contractName |-> "UniswapV2Router02",
           bytecode |-> <<"router_code">>, abi |-> <<>>]
FactoryArtifacts == [kind : {"artifact"}, contractName : {"UniswapV2Factory"},
                     bytecode : {<<"factory_code">>}, abi : AbiLists]

(***************************************************************************)
(* Pure functions of deploy.py.                                            *)
(***************************************************************************)
get_bytecode(contract_meta) == contract_meta.bytecode

\* one ABI word per argument
build_params(types, args) ==
    [i \in 1..Len(types) |-> [type |-> types[i], value |-> args[i]]]

\* a slip: the slice starts after the 0x marker
calc_blockRef_nomarker(block) == SubSeq(block.id, 3, BlockRefLen)

calc_blockRef(block) == SubSeq(block.id, 1, BlockRefLen)

\* a slip: the nonce is a fixed number, not the one drawn
build_tx_fixednonce(block, nonce, chainTag, to, value, data, gas, dependsOn) ==
    [kind |-> "tx",
     chainTag |-> chainTag,
     blockRef |-> calc_blockRef(block),
     expiration |-> Expiration,
     clauses |-> << [to |-> to, value |-> value, data |-> data] >>,
     gasPriceCoef |-> GasPriceCoef,
     gas |-> gas,
     dependsOn |-> dependsOn,
     nonce |-> 0,
     signed |-> TRUE]

\* a slip: the block reference comes from a block kept from earlier
build_tx_stale(block, nonce, chainTag, to, value, data, gas, dependsOn) ==
    [kind |-> "tx",
     chainTag |-> chainTag,
     blockRef |-> calc_blockRef([id |-> BlockId(0)]),
     expiration |-> Expiration,
     clauses |-> << [to |-> to, value |-> value, data |-> data] >>,
     gasPriceCoef |-> GasPriceCoef,
     gas |-> gas,
     dependsOn |-> dependsOn,
     nonce |-> nonce,
     signed |-> TRUE]

build_tx(block, nonce, chainTag, to, value, data, gas, dependsOn) ==
    [kind |-> "tx",
     chainTag |-> chainTag,
     blockRef |-> calc_blockRef(block),
     expiration |-> Expiration,
     clauses |-> << [to |-> to, value |-> value, data |-> data] >>,
     gasPriceCoef |-> GasPriceCoef,
     gas |-> gas,
     dependsOn |-> dependsOn,
     nonce |-> nonce,
     signed |-> TRUE]

\* a slip: the flag is never looked at
is_reverted_never(r) == FALSE

is_reverted(r) == r.reverted

\* a slip: the test of line 155 is missing
CollectCreated_keep(outputs) ==
    [i \in 1..Len(outputs) |-> outputs[i].contractAddress]

RECURSIVE CollectCreated(_)
CollectCreated(outputs) ==
    IF outputs = <<>> THEN <<>>
    ELSE (IF Head(outputs).contractAddress # None
              THEN << Head(outputs).contractAddress >>
              ELSE <<>>) \o CollectCreated(Tail(outputs))

\* a slip: the addresses come out last first
find_created_contracts_rev(r) ==
    LET a == CollectCreated(r.outputs)
    IN  [i \in 1..Len(a) |-> a[Len(a) + 1 - i]]

find_created_contracts(r) == CollectCreated(r.outputs)

\* a slip: a receipt is taken for no receipt
Truthy_never(r) == FALSE

\* Python truth value of what tx_receipt returned
Truthy(r) == r # NoneReceipt

\* a slip: the division by the interval is missing
Rounds_nodiv(w) == w

\* a slip: the number of rounds is rounded up
Rounds_ceil(w) == (w + interval - 1) \div interval

Rounds(w) == w \div interval

\* a slip: the name is not compared, the first descriptor is taken
find_func_abi_first(contract_meta, func_name) ==
    IF contract_meta.abi = <<>> THEN NoneAbi ELSE contract_meta.abi[1]

find_func_abi(contract_meta, func_name) ==
    LET abis == contract_meta.abi
        hits == { i \in 1..Len(abis) : abis[i].name = func_name }
    IN  IF hits = {} THEN NoneAbi ELSE abis[Min(hits)]

\* a slip: the threshold is one unit low
SufficientVTHO_low(a) == a.energy.units >= MinVTHO - 1

\* line 247: int(acc['energy'], 16) / (10 ** 18) > 14000.  The quotient is
\* a double, rounded to nearest; next to 14000 doubles are 2^-39 apart, so
\* the quotient is above 14000 only from 10^18 / 2^40 base units upwards.
SufficientVTHO(a) ==
    \/ a.energy.units > MinVTHO
    \/ a.energy.units = MinVTHO /\ a.energy.rem > HalfUlpBase

\* a slip: the bytecode is left out of the payload
deploy_data_nocode(contract_meta, types, params) ==
    <<"0x">> \o build_params(types, params)

\* lines 182-186
deploy_data(contract_meta, types, params) ==
    <<"0x">> \o (IF types = <<>>
                    THEN get_bytecode(contract_meta)
                    ELSE get_bytecode(contract_meta)
                             \o build_params(types, params))

\* lines 204-209
call_data(abi_dict, func_params) ==
    <<"0x", [selector |-> abi_dict.name]>>
        \o build_params(abi_dict.inputs, func_params)

(***************************************************************************)
(* The fixed sequence of __main__ (lines 250-268).                         *)
(***************************************************************************)
StepMeta(k, fac) == CASE k = 1 -> vvet [] k = 2 -> fac [] k = 3 -> router
StepTypes(k) == CASE k = 1 -> <<>>
                  [] k = 2 -> <<"address">>
                  [] k = 3 -> <<"address", "address">>
\* a slip: the router's two arguments are swapped
StepParams_swapped(k) ==
    CASE k = 1 -> <<>>
      [] k = 2 -> << DeployerAddress >>
      [] k = 3 -> << vvet_contract_addr, factory_contract_addr >>

StepParams(k) == CASE k = 1 -> <<>>
                   [] k = 2 -> << DeployerAddress >>
                   [] k = 3 -> << factory_contract_addr, vvet_contract_addr >>
StepGas(k) == CASE k = 1 -> 3000000 [] k = 2 -> 3000000
                [] k = 3 -> 5000000 [] k = 4 -> 2500000
CallParams == << vvet_contract_addr, VTHO_CONTRACT >>
CallTo == factory_contract_addr

Abort(e) == pc' = "aborted" /\ err' = e

\* deploy returned: its locals are gone, and so is the transaction it
\* waited for, which no later call asks the node about
LocalsGone ==
    /\ tx_id' = 0
    /\ wait_for' = DefaultWaitFor
    /\ rounds' = 0
    /\ iter' = 0
    /\ receipt' = NoneReceipt
    /\ slept' = 0
    /\ polls' = 0
    /\ mineAt' = Never
    /\ chainReceipt' = NoneReceipt
    /\ lastPoll' = "none"

(***************************************************************************)
(* State after the command line was read (lines 233-238).                  *)
(***************************************************************************)
Init ==
    /\ pc = "preflight"
    /\ step = 0
    /\ err = None
    /\ acc = NoneAccount
    /\ factory = NoneArtifact
    /\ vvet_contract_addr = None
    /\ factory_contract_addr = None
    /\ router_contract_addr = None
    /\ raw = NoneTx
    /\ tx_id = 0
    /\ wait_for = DefaultWaitFor
    /\ rounds = 0
    /\ iter = 0
    /\ receipt = NoneReceipt
    /\ slept = 0
    /\ polls = 0
    /\ mineAt = Never
    /\ chainReceipt = NoneReceipt
    /\ posts = <<>>
    /\ nBestBlock = 0
    /\ nBuilt = 0
    /\ observed = <<>>
    /\ drawn = NoNonce
    /\ fetched = NoneBlock
    /\ prevNonce = NoNonce
    /\ lastPoll = "none"

(***************************************************************************)
(* Lines 240-248: get_account and the two assertions.                      *)
(***************************************************************************)
Preflight ==
    /\ pc = "preflight"
    /\ \E status \in HttpStatuses, a \in Accounts :
         IF status # HttpOk
            THEN Abort("TransportError") /\ UNCHANGED << acc, step >>
            ELSE /\ acc' = a
                 /\ IF ~SufficientVTHO(a)
                       THEN Abort("PreflightCheckFailed") /\ UNCHANGED step
                    ELSE IF a.hasCode
                       THEN Abort("PreflightCheckFailed") /\ UNCHANGED step
                    ELSE pc' = "build" /\ step' = 1 /\ UNCHANGED err
    /\ UNCHANGED << factory, addrVars, raw, tx_id, waitVars, mineAt,
                    chainReceipt, histVars, buildVars >>

(***************************************************************************)
(* Lines 251/255/260 and deploy, lines 181-188: read the artifact, encode  *)
(* the payload, build_tx (best_block, blockRef, nonce, sign).              *)
(***************************************************************************)
BuildDeploy ==
    /\ pc = "build"
    /\ step \in 1..3
    /\ \E fac \in (IF step = 2 THEN FactoryArtifacts ELSE {factory}),
          status \in HttpStatuses, block \in Blocks, nonce \in Nonces :
         /\ factory' = fac
         /\ nBestBlock' = nBestBlock + 1
         /\ IF status # HttpOk
               THEN Abort("TransportError")
                    /\ UNCHANGED << raw, nBuilt, drawn, fetched >>
               ELSE /\ fetched' = block
                    /\ drawn' = nonce
                    /\ raw' = build_tx(block, nonce, CHAIN_TAG, None, 0,
                                   deploy_data(StepMeta(step, fac),
                                               StepTypes(step),
                                               StepParams(step)),
                                   StepGas(step), None)
                    /\ nBuilt' = nBuilt + 1
                    /\ pc' = "post"
                    /\ UNCHANGED err
    /\ UNCHANGED << step, acc, addrVars, tx_id, waitVars, mineAt,
                    chainReceipt, posts, observed, prevNonce >>

(***************************************************************************)
(* Lines 264-266 and call_function, lines 204-211.                         *)
(***************************************************************************)
BuildCall ==
    /\ pc = "build"
    /\ step = 4
    /\ LET createPair_abi == find_func_abi(factory, "createPair") IN
       IF createPair_abi = NoneAbi
          THEN Abort("AbiLookupError")
               /\ UNCHANGED << raw, nBuilt, nBestBlock, drawn, fetched >>
          ELSE \E status \in HttpStatuses, block \in Blocks, nonce \in Nonces :
                 /\ nBestBlock' = nBestBlock + 1
                 /\ IF status # HttpOk
                       THEN Abort("TransportError")
                            /\ UNCHANGED << raw, nBuilt, drawn, fetched >>
                       ELSE /\ fetched' = block
                            /\ drawn' = nonce
                            /\ raw' = build_tx(block, nonce, CHAIN_TAG, CallTo, 0,
                                           call_data(createPair_abi, CallParams),
                                           StepGas(step), None)
                            /\ nBuilt' = nBuilt + 1
                            /\ pc' = "post"
                            /\ UNCHANGED err
    /\ UNCHANGED << step, acc, factory, addrVars, tx_id, waitVars, mineAt,
                    chainReceipt, posts, observed, prevNonce >>

\* a slip: a rejected transaction is posted again
PostTx_retry ==
    /\ pc = "post"
    /\ \E status \in HttpStatuses :
         /\ posts' = Append(posts, [step |-> step,
                                    to |-> raw.clauses[1].to,
                                    data |-> raw.clauses[1].data,
                                    status |-> status])
         /\ IF status # HttpOk
               THEN UNCHANGED << pc, err, raw, tx_id, waitVars, mineAt,
                                 chainReceipt, drawn, fetched >>
               ELSE \E m \in MineTimes :
                    /\ tx_id' = Len(posts) + 1
                    /\ mineAt' = m
                    /\ chainReceipt' = NoneReceipt
                    /\ wait_for' = DefaultWaitFor
                    /\ rounds' = Rounds(DefaultWaitFor)
                    /\ iter' = 0
                    /\ receipt' = NoneReceipt
                    /\ slept' = 0
                    /\ polls' = 0
                    /\ pc' = "wait"
                    /\ raw' = NoneTx
                    /\ drawn' = NoNonce
                    /\ fetched' = NoneBlock
                    /\ UNCHANGED << err, lastPoll >>
    /\ prevNonce' = raw.nonce
    /\ UNCHANGED << step, acc, factory, addrVars, nBestBlock, nBuilt,
                    observed >>

(***************************************************************************)
(* post_tx (lines 119-133, called at 189 and 212) and the entry of         *)
(* wait_for_receipt (lines 163-165).                                       *)
(***************************************************************************)
PostTx ==
    /\ pc = "post"
    /\ \E status \in HttpStatuses :
         /\ posts' = Append(posts, [step |-> step,
                                    to |-> raw.clauses[1].to,
                                    data |-> raw.clauses[1].data,
                                    status |-> status])
         /\ IF status # HttpOk
               THEN /\ Abort("TransportError")
                    /\ UNCHANGED << tx_id, waitVars, mineAt, chainReceipt >>
               ELSE \E m \in MineTimes :
                    /\ tx_id' = Len(posts) + 1
                    /\ mineAt' = m
                    /\ chainReceipt' = NoneReceipt
                    /\ wait_for' = DefaultWaitFor
                    /\ rounds' = Rounds(DefaultWaitFor)
                    /\ iter' = 0
                    /\ receipt' = NoneReceipt
                    /\ slept' = 0
                    /\ polls' = 0
                    /\ pc' = "wait"
                    /\ UNCHANGED << err, lastPoll >>
    /\ raw' = NoneTx
    /\ drawn' = NoNonce
    /\ fetched' = NoneBlock
    /\ prevNonce' = raw.nonce
    /\ UNCHANGED << step, acc, factory, addrVars, nBestBlock, nBuilt,
                    observed >>

(***************************************************************************)
(* The node's answer to GET /transactions/{id}/receipt, status 200: null   *)
(* until the transaction is mined, the same receipt from then on.          *)
(***************************************************************************)
ReceiptBodies ==
    IF mineAt = Never \/ slept < mineAt THEN {NoneReceipt}
    ELSE IF chainReceipt # NoneReceipt THEN {chainReceipt}
    ELSE Receipts

\* a slip: a failed request is taken for "no receipt yet"
WaitPoll_swallow ==
    /\ pc = "wait"
    /\ iter < rounds
    /\ iter' = iter + 1
    /\ polls' = polls + 1
    /\ \E status \in HttpStatuses :
         IF status # HttpOk
            THEN /\ lastPoll' = "error"
                 /\ slept' = slept + interval
                 /\ UNCHANGED << pc, err, receipt, chainReceipt >>
            ELSE \E body \in ReceiptBodies :
                 /\ receipt' = body
                 /\ chainReceipt' = body
                 /\ lastPoll' = IF body = NoneReceipt THEN "absent"
                                                     ELSE "receipt"
                 /\ IF Truthy(body)
                       THEN pc' = "classify" /\ UNCHANGED << slept, err >>
                       ELSE /\ slept' = slept + interval
                            /\ UNCHANGED << pc, err >>
    /\ UNCHANGED << step, acc, factory, addrVars, raw, tx_id, wait_for,
                    rounds, mineAt, histVars, buildVars >>

(***************************************************************************)
(* wait_for_receipt, one iteration of the loop (lines 166-171); on break,  *)
(* lines 173-176 return the receipt.                                       *)
(***************************************************************************)
WaitPoll ==
    /\ pc = "wait"
    /\ iter < rounds
    /\ iter' = iter + 1
    /\ polls' = polls + 1
    /\ \E status \in HttpStatuses :
         IF status # HttpOk
            THEN /\ Abort("TransportError")
                 /\ lastPoll' = "error"
                 /\ UNCHANGED << receipt, slept, chainReceipt >>
            ELSE \E body \in ReceiptBodies :
                 /\ receipt' = body
                 /\ chainReceipt' = body
                 /\ lastPoll' = IF body = NoneReceipt THEN "absent"
                                                     ELSE "receipt"
                 /\ IF Truthy(body)
                       THEN pc' = "classify" /\ UNCHANGED << slept, err >>
                       ELSE /\ slept' = slept + interval
                            /\ UNCHANGED << pc, err >>
    /\ UNCHANGED << step, acc, factory, addrVars, raw, tx_id, wait_for,
                    rounds, mineAt, histVars, buildVars >>

\* a slip: the timeout is swallowed and the script goes on
WaitTimeout_continue ==
    /\ pc = "wait"
    /\ iter >= rounds
    /\ ~Truthy(receipt)
    /\ pc' = IF step < 4 THEN "build" ELSE "completed"
    /\ step' = IF step < 4 THEN step + 1 ELSE step
    /\ UNCHANGED << err, acc, factory, addrVars, raw, tx_id, waitVars,
                    mineAt, chainReceipt, histVars, buildVars >>

(***************************************************************************)
(* wait_for_receipt, lines 173-174: the loop ran out without a receipt.    *)
(***************************************************************************)
WaitTimeout ==
    /\ pc = "wait"
    /\ iter >= rounds
    /\ ~Truthy(receipt)
    /\ Abort("ConfirmationTimeout")
    /\ UNCHANGED << step, acc, factory, addrVars, raw, tx_id, waitVars,
                    mineAt, chainReceipt, histVars, buildVars >>

(***************************************************************************)
(* History: what the receipt handed to a step shows, read off the receipt  *)
(* itself.                                                                 *)
(***************************************************************************)
CreatedIdx(r) ==
    { i \in 1..Len(r.outputs) : r.outputs[i].contractAddress \in Addresses }
FirstCreated(r) ==
    IF CreatedIdx(r) = {} THEN None
    ELSE r.outputs[Min(CreatedIdx(r))].contractAddress
Observe(r) == [reverted |-> r.reverted, created |-> FirstCreated(r)]

(***************************************************************************)
(* deploy, lines 194-199, and the assignment of its result in __main__.    *)
(***************************************************************************)
DeployFinish ==
    /\ pc = "classify"
    /\ step \in 1..3
    /\ observed' = Append(observed, Observe(receipt))
    /\ IF is_reverted(receipt)
          THEN Abort("Reverted") /\ UNCHANGED << step, addrVars >>
          ELSE LET addrs == find_created_contracts(receipt) IN
               IF Len(addrs) = 0
                  THEN Abort("MissingCreatedAddress")
                       /\ UNCHANGED << step, addrVars >>
                  ELSE /\ vvet_contract_addr' =
                            IF step = 1 THEN addrs[1] ELSE vvet_contract_addr
                       /\ factory_contract_addr' =
                            IF step = 2 THEN addrs[1] ELSE factory_contract_addr
                       /\ router_contract_addr' =
                            IF step = 3 THEN addrs[1] ELSE router_contract_addr
                       /\ step' = step + 1
                       /\ pc' = "build"
                       /\ UNCHANGED err
    /\ IF pc' = "build" THEN LocalsGone
                        ELSE UNCHANGED << tx_id, waitVars, mineAt, chainReceipt >>
    /\ UNCHANGED << acc, factory, raw, posts, nBestBlock, nBuilt, buildVars >>

\* a slip: the receipt of the call is not looked at
CallFinish_ignore ==
    /\ pc = "classify"
    /\ step = 4
    /\ observed' = Append(observed, Observe(receipt))
    /\ pc' = "completed"
    /\ UNCHANGED << err, step, acc, factory, addrVars, raw, tx_id, waitVars,
                    mineAt, chainReceipt, posts, nBestBlock, nBuilt,
                    buildVars >>

(***************************************************************************)
(* call_function, lines 217-220; the script ends after it.                 *)
(***************************************************************************)
CallFinish ==
    /\ pc = "classify"
    /\ step = 4
    /\ observed' = Append(observed, Observe(receipt))
    /\ IF is_reverted(receipt)
          THEN Abort("Reverted")
          ELSE pc' = "completed" /\ UNCHANGED err
    /\ UNCHANGED << step, acc, factory, addrVars, raw, tx_id, waitVars,
                    mineAt, chainReceipt, posts, nBestBlock, nBuilt,
                    buildVars >>

Next ==
    \/ Preflight
    \/ BuildDeploy
    \/ BuildCall
    \/ PostTx
    \/ WaitPoll
    \/ WaitTimeout
    \/ DeployFinish
    \/ CallFinish

Spec == Init /\ [][Next]_vars

(***************************************************************************)
(* wait_for_receipt on its own: any wait_for, any time of mining.          *)
(***************************************************************************)
WaitInit ==
    /\ pc = "wait"
    /\ step = 1
    /\ err = None
    /\ acc = NoneAccount
    /\ factory = NoneArtifact
    /\ vvet_contract_addr = None
    /\ factory_contract_addr = None
    /\ router_contract_addr = None
    /\ raw = NoneTx
    /\ tx_id = 1
    /\ wait_for \in 0..MaxWaitFor
    /\ rounds = Rounds(wait_for)
    /\ iter = 0
    /\ receipt = NoneReceipt
    /\ slept = 0
    /\ polls = 0
    /\ mineAt \in MineTimes
    /\ chainReceipt = NoneReceipt
    /\ posts = <<>>
    /\ nBestBlock = 0
    /\ nBuilt = 0
    /\ observed = <<>>
    /\ drawn = NoNonce
    /\ fetched = NoneBlock
    /\ prevNonce = NoNonce
    /\ lastPoll = "none"

WaitNext == WaitPoll \/ WaitTimeout

WaitSpec == WaitInit /\ [][WaitNext]_vars

\* the script is the only process and runs whenever it can
FairWaitSpec == WaitSpec /\ WF_vars(WaitNext)

FairSpec == Spec /\ WF_vars(Next)

(***************************************************************************)
(* Properties.                                                             *)
(***************************************************************************)
AddrOf(k) == CASE k = 1 -> vvet_contract_addr
               [] k = 2 -> factory_contract_addr
               [] k = 3 -> router_contract_addr
               [] OTHER -> None

AddressWord(a) == [type |-> "address", value |-> a]

\* C1: when the receipt observed for step k is reverted, the run is aborted
\* and post_tx has been called exactly k times: nothing is submitted for a
\* step after k.
C1_SequenceAbort ==
    \A k \in 1..Len(observed) :
        observed[k].reverted =>
            /\ pc = "aborted"
            /\ Len(observed) = k
            /\ Len(posts) = k

C1_Witness ==
    /\ Len(observed) = 2
    /\ observed[2].reverted
    /\ pc = "aborted"
    /\ Len(posts) = 2

\* C2: a fetched account with energy below 14000 units, or with code, ends
\* the run in the pre-flight check: no best block was fetched, no
\* transaction was built and none was submitted.
C2_PreflightFailure ==
    (acc # NoneAccount /\ (acc.energy.units < MinVTHO \/ acc.hasCode)) =>
        /\ pc = "aborted"
        /\ err = "PreflightCheckFailed"
        /\ step = 0
        /\ nBestBlock = 0
        /\ nBuilt = 0
        /\ Len(posts) = 0

C2_Witness ==
    /\ acc # NoneAccount
    /\ acc.energy.units < MinVTHO
    /\ ~acc.hasCode
    /\ pc = "aborted"
    /\ err = "PreflightCheckFailed"

\* C3: a fetched account with energy of 14000 units or more (exactly 14000
\* included) and without code passes the pre-flight check, and the run goes
\* on to the first step.
C3_PreflightPass ==
    (acc # NoneAccount /\ acc.energy.units >= MinVTHO /\ ~acc.hasCode) =>
        /\ err # "PreflightCheckFailed"
        /\ step >= 1

\* C4: the payload submitted for the router is its bytecode followed by the
\* encoding of (factory address, VVET address), the createPair call goes to
\* the factory address with arguments (VVET address, VTHO contract), and
\* these addresses are the first created addresses of the confirmed receipts
\* of the factory and VVET steps of this run.
C4_AddressBinding ==
    \A j \in 1..Len(posts) :
        /\ posts[j].step = j
        /\ \A i \in 1..(j - 1) :
               /\ ~observed[i].reverted
               /\ observed[i].created \in Addresses
        /\ j = 1 => /\ posts[j].to = None
                    /\ posts[j].data = <<"0x">> \o vvet.bytecode
        /\ j = 2 => /\ posts[j].to = None
                    /\ posts[j].data = <<"0x">> \o factory.bytecode
                                         \o << AddressWord(DeployerAddress) >>
        /\ j = 3 => /\ posts[j].to = None
                    /\ posts[j].data = <<"0x">> \o router.bytecode
                                  \o << AddressWord(observed[2].created),
                                        AddressWord(observed[1].created) >>
        /\ j = 4 => /\ posts[j].to = observed[2].created
                    /\ posts[j].data =
                           << "0x", [selector |-> "createPair"],
                              AddressWord(observed[1].created),
                              AddressWord(VTHO_CONTRACT) >>

C4_Witness ==
    /\ pc = "completed"
    /\ Len(posts) = 4
    /\ observed[1].created # observed[2].created

\* index of the first poll that finds the receipt: poll j is made after
\* (j - 1) * interval seconds
FirstPoll == (mineAt + interval - 1) \div interval + 1

\* C5: when the node answers null to the first k-1 polls and with a receipt
\* to poll k, and k is within the rounds of the window, wait_for_receipt
\* returns that receipt after exactly k polls and never polls again.
C5_ReturnsFirstReceipt ==
    (mineAt # Never /\ FirstPoll <= rounds) =>
        /\ polls <= FirstPoll
        /\ (pc # "wait" /\ err # "TransportError") =>
               /\ pc = "classify"
               /\ polls = FirstPoll
               /\ receipt \in Receipts
               /\ receipt = chainReceipt

C5_Witness ==
    /\ pc = "classify"
    /\ wait_for = DefaultWaitFor
    /\ mineAt # Never
    /\ FirstPoll = 3
    /\ polls = 3
    /\ receipt \in Receipts

C7_TimeoutOnlyWithoutReceipt ==
    (pc = "aborted" /\ err = "ConfirmationTimeout") =>
        ~(mineAt # Never /\ mineAt < wait_for)

\* C8: a step whose receipt is reverted fails as Reverted and binds no
\* address, whatever its outputs hold; a deploy step whose receipt is not
\* reverted and holds a created address succeeds and binds the first such
\* address in output order.
C8_Classification ==
    \A k \in 1..Len(observed) :
        /\ observed[k].reverted =>
               /\ pc = "aborted"
               /\ err = "Reverted"
               /\ AddrOf(k) = None
        /\ (k <= 3 /\ ~observed[k].reverted /\ observed[k].created # None) =>
               /\ AddrOf(k) = observed[k].created
               /\ step > k
               /\ err \notin {"Reverted", "MissingCreatedAddress"}
                      \/ Len(observed) > k

C8_Witness ==
    /\ Len(observed) = 2
    /\ ~observed[1].reverted
    /\ vvet_contract_addr = observed[1].created
    /\ observed[2].reverted
    /\ observed[2].created \in Addresses
    /\ receipt.outputs[1].contractAddress = None
    /\ err = "Reverted"

\* C9: a deploy step whose receipt is not reverted and holds no created
\* address fails with MissingCreatedAddress; the run is aborted and nothing
\* is built or submitted for a later step.
C9_MissingCreatedAddress ==
    \A k \in 1..Len(observed) :
        (k <= 3 /\ ~observed[k].reverted /\ observed[k].created = None) =>
            /\ pc = "aborted"
            /\ err = "MissingCreatedAddress"
            /\ Len(observed) = k
            /\ AddrOf(k) = None
            /\ nBestBlock = k
            /\ nBuilt = k
            /\ Len(posts) = k

C9_Witness ==
    /\ pc = "aborted"
    /\ err = "MissingCreatedAddress"
    /\ Len(observed) = 2
    /\ Len(receipt.outputs) > 0
    /\ Len(posts) = 2

\* C10: each step calls post_tx at most once and a run at most 4 times; a
\* rejected submission is the last one, and after a rejection, a timeout or
\* a revert the number of submissions is that of the failed step.
C10_NoResubmission ==
    /\ Len(posts) <= 4
    /\ \A i, j \in 1..Len(posts) : i < j => posts[i].step < posts[j].step
    /\ \A i \in 1..Len(posts) :
           posts[i].status # HttpOk => (i = Len(posts) /\ pc = "aborted")
    /\ (pc = "aborted"
          /\ err \in {"TransportError", "ConfirmationTimeout", "Reverted"}
          /\ step >= 1)
           => Len(posts) \in {step - 1, step}
    /\ (pc = "aborted" /\ err \in {"ConfirmationTimeout", "Reverted"})
           => Len(posts) = step

C10_Witness ==
    /\ pc = "aborted"
    /\ err = "TransportError"
    /\ Len(posts) = 2
    /\ posts[2].status = HttpError

\* C11, as claimed, for two transactions built one after the other: the
\* transaction just built and the one posted before it never carry the same
\* nonce.
C11_NonceUnique ==
    (raw # NoneTx /\ prevNonce # NoNonce) => raw.nonce # prevNonce

\* C11, amended: the nonce of every built transaction is the value that
\* _calc_nonce returned to the build_tx call that built it, one draw per
\* build; nothing of an earlier build enters it.
C11_NonceFreshDraw ==
    /\ raw # NoneTx => (drawn \in Nonces /\ raw.nonce = drawn)
    /\ raw = NoneTx => drawn = NoNonce

C11_Witness ==
    /\ pc = "post"
    /\ step = 2
    /\ raw.nonce = drawn
    /\ raw.nonce = prevNonce

\* C12: the block reference of every built transaction is taken from the
\* block that best_block returned inside the build_tx call that built it;
\* that call comes after the receipts of all earlier steps were seen
\* unreverted and before the transaction is posted; each build fetches the
\* best block exactly once and no fetched block outlives its build.
C12_BlockRefFresh ==
    /\ raw # NoneTx =>
           /\ fetched \in Blocks
           /\ raw.blockRef = SubSeq(fetched.id, 1, 18)
           /\ nBestBlock = step
           /\ nBuilt = step
           /\ Len(posts) = step - 1
           /\ Len(observed) = step - 1
           /\ \A i \in 1..Len(observed) : ~observed[i].reverted
    /\ raw = NoneTx => fetched = NoneBlock
    /\ nBuilt <= nBestBlock
    /\ nBestBlock <= nBuilt + 1
    /\ nBestBlock = nBuilt + 1 => (pc = "aborted" /\ err = "TransportError")
    /\ Len(posts) <= nBuilt

C12_Witness ==
    /\ pc = "post"
    /\ step = 2
    /\ fetched = [id |-> BlockId(9)]
    /\ nBestBlock = 2
    /\ raw.blockRef = SubSeq(BlockId(9), 1, 18)

\* posts the node accepted, and those among them with no receipt seen yet
Accepted == { j \in 1..Len(posts) : posts[j].status = HttpOk }
InFlight == Cardinality(Accepted) - Len(observed)

\* C13: a step is built and submitted only after the receipts of all
\* earlier steps were seen unreverted; at most one submitted transaction
\* awaits its receipt, and none does while a transaction is built or posted.
C13_Sequential ==
    /\ InFlight \in {0, 1}
    /\ pc \in {"build", "post"} => InFlight = 0
    /\ nBestBlock <= Len(observed) + 1
    /\ nBuilt <= Len(observed) + 1
    /\ \A j \in 1..Len(posts) :
           /\ Len(observed) >= j - 1
           /\ \A i \in 1..(j - 1) : ~observed[i].reverted

C13_Witness ==
    /\ pc = "wait"
    /\ step = 3
    /\ InFlight = 1
    /\ Len(posts) = 3
    /\ Len(observed) = 2

HasCreatePair(fac) ==
    \E i \in 1..Len(fac.abi) : fac.abi[i].name = "createPair"

\* C14: when the factory artifact has no descriptor named createPair, the
\* fourth step ends the run with the ABI lookup error: nothing is fetched,
\* built or submitted for it.
C14_AbiLookupFailure ==
    (step = 4 /\ ~HasCreatePair(factory)) =>
        /\ pc = "build" \/ (pc = "aborted" /\ err = "AbiLookupError")
        /\ raw = NoneTx
        /\ nBestBlock = 3
        /\ nBuilt = 3
        /\ Len(posts) = 3

C14_Witness ==
    /\ pc = "aborted"
    /\ err = "AbiLookupError"
    /\ step = 4
    /\ Len(factory.abi) > 0
    /\ Len(posts) = 3

AllConfirmed ==
    /\ acc # NoneAccount
    /\ ~acc.hasCode
    /\ Len(posts) = 4
    /\ \A j \in 1..Len(posts) : posts[j].step = j /\ posts[j].status = HttpOk
    /\ Len(observed) = 4
    /\ \A i \in 1..Len(observed) : ~observed[i].reverted

\* C15: every run ends, completed or aborted, and stays there; it is
\* completed exactly when the pre-flight check passed and the four steps
\* were submitted once each, in order, and confirmed unreverted; a run that
\* raised an error is aborted.
C15_RunOutcome ==
    /\ <>(pc \in {"completed", "aborted"})
    /\ [](pc = "completed" <=> AllConfirmed)
    /\ [](pc = "aborted" <=> err # None)
    /\ [][(pc \in {"completed", "aborted"}) => (pc' = pc)]_vars

C15_Witness ==
    /\ pc = "completed"
    /\ AllConfirmed
    /\ err = None

\* C16: a null answer to a receipt poll makes the wait sleep one interval
\* and go on (to the next poll, or to the timeout when the rounds are used
\* up); a failed request ends the wait at once with a transport error and
\* aborts the run, and is never taken for a null answer or for a timeout.
C16_AbsentVsTransport ==
    /\ lastPoll = "error" =>
           /\ pc = "aborted"
           /\ err = "TransportError"
           /\ receipt = NoneReceipt
           /\ slept = 3 * (polls - 1)
    /\ lastPoll = "absent" =>
           /\ receipt = NoneReceipt
           /\ iter = polls
           /\ slept = 3 * polls
           /\ \/ pc = "wait"
              \/ pc = "aborted" /\ err = "ConfirmationTimeout"
                                /\ polls = rounds
    /\ (pc = "aborted" /\ err = "ConfirmationTimeout") => lastPoll # "error"

C16_Witness ==
    /\ pc = "aborted"
    /\ err = "TransportError"
    /\ lastPoll = "error"
    /\ polls = 3
    /\ slept = 6

\* C17: every built transaction has one clause with value 0, expiration 32
\* and fee coefficient 0; a deploy has no destination and its payload is
\* the bytecode alone without constructor types, the bytecode followed by
\* the encoded constructor arguments with them; the call has a destination.
C17_ClauseShape ==
    raw # NoneTx =>
        /\ Len(raw.clauses) = 1
        /\ raw.clauses[1].value = 0
        /\ raw.expiration = 32
        /\ raw.gasPriceCoef = 0
        /\ step \in 1..3 => raw.clauses[1].to = None
        /\ step = 1 => raw.clauses[1].data = <<"0x">> \o vvet.bytecode
        /\ step = 2 => raw.clauses[1].data =
                           <<"0x">> \o factory.bytecode
                               \o << AddressWord(DeployerAddress) >>
        /\ step = 3 => raw.clauses[1].data =
                           <<"0x">> \o router.bytecode
                               \o << AddressWord(factory_contract_addr),
                                     AddressWord(vvet_contract_addr) >>
        /\ step = 4 => /\ raw.clauses[1].to # None
                       /\ raw.clauses[1].to \in Addresses

C17_Witness ==
    /\ pc = "post"
    /\ step = 4
    /\ raw.clauses[1].to \in Addresses
    /\ Len(raw.clauses) = 1

\* C18: the block reference of a built transaction is the first 18
\* characters of the id of the block it was derived from (0x and 16 hex
\* digits), and deriving it again from that block gives the same value.
C18_BlockRefPrefix ==
    raw # NoneTx =>
        /\ Len(raw.blockRef) = 18
        /\ \A i \in 1..18 : raw.blockRef[i] = fetched.id[i]
        /\ raw.blockRef[1] = "0" /\ raw.blockRef[2] = "x"
        /\ calc_blockRef(fetched) = raw.blockRef

C18_Witness ==
    /\ pc = "post"
    /\ fetched = [id |-> BlockId(30)]
    /\ raw.blockRef = SubSeq(BlockId(0), 1, 18)
    /\ Len(raw.blockRef) = 18

\* number of polls wait_for_receipt makes when no request fails
ExpectedPolls ==
    IF mineAt # Never /\ FirstPoll < wait_for \div 3
        THEN FirstPoll
        ELSE wait_for \div 3

====
